---- MODULE Spec2Model ----
(***************************************************************************)
(* Model of src/lib.rs: the State object (surface, queue, config, size,    *)
(* render pipeline, vertex buffer), its methods new / resize / input /     *)
(* update / render, and the event-loop closure of run().                   *)
(*                                                                         *)
(* Floating point vertex data is scaled by 10 to integers.  The calls the  *)
(* program makes on the GPU objects are logged, per dispatched event, in   *)
(* the trace field of the state record.                                    *)
(***************************************************************************)
EXTENDS Integers, Sequences, FiniteSets, TLC

\* ---------------------------------------------------------------- bounds
MaxDim == 2
MaxFrames == 2
MaxResizes == 1

Dims == 0..MaxDim
Sizes == [width : Dims, height : Dims]

\* ------------------------------------------------------------- data types
Formats == {"Bgra8UnormSrgb", "Rgba8UnormSrgb"}
FormatLists == {<<f>> : f \in Formats} \cup {<<f, g>> : f \in Formats, g \in Formats}

SurfaceErrors == {"Lost", "OutOfMemory", "Outdated", "Timeout"}
Outcomes == {"Ok"} \cup SurfaceErrors

WindowIds == {"window", "other"}
window_id == "window"

VERTICES ==
    << [position |-> <<0, 5, 0>>,   color |-> <<10, 0, 0>>],
       [position |-> <<-5, -5, 0>>, color |-> <<0, 10, 0>>],
       [position |-> <<5, -5, 0>>,  color |-> <<0, 0, 10>>] >>

Step(op, a, b) == [op |-> op, a |-> a, b |-> b]

Log(s, op, a, b) == [s EXCEPT !.trace = Append(@, Step(op, a, b))]

Calls(trace, op) == Cardinality({i \in DOMAIN trace : trace[i].op = op})

\* The State object before State::new has run.
NoState ==
    [ surface         |-> [configured |-> FALSE, width |-> 0, height |-> 0,
                           format |-> "None", present_mode |-> "None",
                           frames |-> 0, texture |-> 0, presented |-> <<>>],
      queue           |-> <<>>,
      config          |-> [usage |-> "None", format |-> "None", width |-> 0,
                           height |-> 0, present_mode |-> "None"],
      size            |-> [width |-> 0, height |-> 0],
      render_pipeline |-> [built |-> FALSE, format |-> "None", topology |-> "None",
                           front_face |-> "None", cull_mode |-> "None",
                           blend |-> "None", samples |-> 0],
      vertex_buffer   |-> <<>>,
      num_vertices    |-> 0,
      trace           |-> <<>> ]

\* ------------------------------------------------------- GPU collaborator
\* surface.configure(&device, &config): wgpu rejects a zero-area
\* configuration (the call is fatal); otherwise the surface takes it over.
configure(s, config) ==
    LET l == Log(s, "configure", config.width, config.height)
    IN  IF config.width = 0 \/ config.height = 0
        THEN l
        ELSE [l EXCEPT !.surface.configured = TRUE,
                       !.surface.width = config.width,
                       !.surface.height = config.height,
                       !.surface.format = config.format,
                       !.surface.present_mode = config.present_mode]

\* (variant: the ranges taken as inclusive)
draw_inclusive(s, vlo, vhi, ilo, ihi) == Log(s, "draw", vhi - vlo + 1, ihi - ilo + 1)

\* render_pass.draw(vertices, instances) with half-open ranges lo..hi
draw(s, vlo, vhi, ilo, ihi) == Log(s, "draw", vhi - vlo, ihi - ilo)

\* (variant: a hard-coded target format)
ColorTargetState_fixed(config) ==
    [format |-> "Bgra8UnormSrgb", blend |-> "REPLACE", write_mask |-> "ALL"]

\* fragment target of the render pipeline descriptor
ColorTargetState(config) ==
    [format |-> config.format, blend |-> "REPLACE", write_mask |-> "ALL"]

\* (variant: the surface is configured before the adapter and device are checked)
new_checks_late(inner_size, adapter_found, device_ok, formats) ==
    LET size == inner_size
        num_vertices == Len(VERTICES)
        config == [usage |-> "RENDER_ATTACHMENT",
                   format |-> formats[1],
                   width |-> size.width,
                   height |-> size.height,
                   present_mode |-> "Fifo"]
        s1 == configure(NoState, config)
        s2 == Log(s1, "create_render_pipeline", 0, 0)
        target == ColorTargetState(config)
        render_pipeline == [built |-> TRUE, format |-> target.format,
                            topology |-> "TriangleList", front_face |-> "Ccw",
                            cull_mode |-> "Back", blend |-> target.blend,
                            samples |-> 1]
        s3 == Log(s2, "create_buffer_init", Len(VERTICES), 0)
    IN  IF ~s1.surface.configured
        THEN [result |-> "Panic", s |-> s1]
        ELSE IF ~adapter_found \/ ~device_ok
        THEN [result |-> "Panic", s |-> s1]
        ELSE [result |-> "Ok",
              s |-> [s3 EXCEPT !.config = config,
                               !.size = size,
                               !.render_pipeline = render_pipeline,
                               !.vertex_buffer = VERTICES,
                               !.num_vertices = num_vertices]]

\* ------------------------------------------------------------ State::new
new(inner_size, adapter_found, device_ok, formats) ==
    LET size == inner_size
        num_vertices == Len(VERTICES)
        config == [usage |-> "RENDER_ATTACHMENT",
                   format |-> formats[1],
                   width |-> size.width,
                   height |-> size.height,
                   present_mode |-> "Fifo"]
        s1 == configure(NoState, config)
        s2 == Log(s1, "create_render_pipeline", 0, 0)
        target == ColorTargetState(config)
        render_pipeline == [built |-> TRUE, format |-> target.format,
                            topology |-> "TriangleList", front_face |-> "Ccw",
                            cull_mode |-> "Back", blend |-> target.blend,
                            samples |-> 1]
        s3 == Log(s2, "create_buffer_init", Len(VERTICES), 0)
    IN  IF ~adapter_found \/ ~device_ok
        THEN [result |-> "Panic", s |-> NoState]
        ELSE IF ~s1.surface.configured
        THEN [result |-> "Panic", s |-> s1]
        ELSE [result |-> "Ok",
              s |-> [s3 EXCEPT !.config = config,
                               !.size = size,
                               !.render_pipeline = render_pipeline,
                               !.vertex_buffer = VERTICES,
                               !.num_vertices = num_vertices]]

\* (variant: `||` in the guard)
resize_or(s, new_size) ==
    IF new_size.width > 0 \/ new_size.height > 0
    THEN LET s1 == [s EXCEPT !.size = new_size,
                             !.config.width = new_size.width,
                             !.config.height = new_size.height]
         IN  configure(s1, s1.config)
    ELSE s

\* (variant: config.height not updated)
resize_no_height(s, new_size) ==
    IF new_size.width > 0 /\ new_size.height > 0
    THEN LET s1 == [s EXCEPT !.size = new_size,
                             !.config.width = new_size.width]
         IN  configure(s1, s1.config)
    ELSE s

\* (variant: the pipeline is rebuilt on resize)
resize_rebuilds(s, new_size) ==
    IF new_size.width > 0 /\ new_size.height > 0
    THEN LET s1 == [s EXCEPT !.size = new_size,
                             !.config.width = new_size.width,
                             !.config.height = new_size.height]
         IN  Log(configure(s1, s1.config), "create_render_pipeline", 0, 0)
    ELSE s

\* (variant: the surface is not reconfigured)
resize_no_configure(s, new_size) ==
    IF new_size.width > 0 /\ new_size.height > 0
    THEN [s EXCEPT !.size = new_size,
                   !.config.width = new_size.width,
                   !.config.height = new_size.height]
    ELSE s

\* (variant: self.size not updated)
resize_no_size(s, new_size) ==
    IF new_size.width > 0 /\ new_size.height > 0
    THEN LET s1 == [s EXCEPT !.config.width = new_size.width,
                             !.config.height = new_size.height]
         IN  configure(s1, s1.config)
    ELSE s

\* --------------------------------------------------------- State::resize
resize(s, new_size) ==
    IF new_size.width > 0 /\ new_size.height > 0
    THEN LET s1 == [s EXCEPT !.size = new_size,
                             !.config.width = new_size.width,
                             !.config.height = new_size.height]
         IN  configure(s1, s1.config)
    ELSE s

\* ---------------------------------------------------------- State::input
input(s, event) == FALSE

\* --------------------------------------------------------- State::update
update(s) == Log(s, "update", 0, 0)

\* (variant: present before submit)
render_present_first(s, outcome) ==
    IF outcome # "Ok"
    THEN [result |-> outcome, s |-> Log(s, "get_current_texture", 0, 0)]
    ELSE LET id == s.surface.frames + 1
             a  == Log([s EXCEPT !.surface.frames = id, !.surface.texture = id],
                       "get_current_texture", id, 0)
             e  == Log(a, "create_command_encoder", 0, 0)
             p  == Log(e, "begin_render_pass", 0, 0)
             sp == Log(p, "set_pipeline", 0, 0)
             vb == Log(sp, "set_vertex_buffer", 0, Len(s.vertex_buffer))
             d  == draw(vb, 0, s.num_vertices, 0, 1)
             o  == Log([d EXCEPT !.surface.presented = Append(@, d.surface.texture),
                                 !.surface.texture = 0],
                       "present", d.surface.texture, 0)
             q  == Log([o EXCEPT !.queue = Append(@, id)], "submit", id, 0)
         IN  [result |-> "Ok", s |-> q]

\* (variant: the frame is never presented)
render_no_present(s, outcome) ==
    IF outcome # "Ok"
    THEN [result |-> outcome, s |-> Log(s, "get_current_texture", 0, 0)]
    ELSE LET id == s.surface.frames + 1
             a  == Log([s EXCEPT !.surface.frames = id, !.surface.texture = id],
                       "get_current_texture", id, 0)
             e  == Log(a, "create_command_encoder", 0, 0)
             p  == Log(e, "begin_render_pass", 0, 0)
             sp == Log(p, "set_pipeline", 0, 0)
             vb == Log(sp, "set_vertex_buffer", 0, Len(s.vertex_buffer))
             d  == draw(vb, 0, s.num_vertices, 0, 1)
             q  == Log([d EXCEPT !.queue = Append(@, id)], "submit", id, 0)
         IN  [result |-> "Ok", s |-> q]

\* --------------------------------------------------------- State::render
\* outcome is what surface.get_current_texture() returns.
render(s, outcome) ==
    IF outcome # "Ok"
    THEN [result |-> outcome, s |-> Log(s, "get_current_texture", 0, 0)]
    ELSE LET id == s.surface.frames + 1
             a  == Log([s EXCEPT !.surface.frames = id, !.surface.texture = id],
                       "get_current_texture", id, 0)
             e  == Log(a, "create_command_encoder", 0, 0)
             p  == Log(e, "begin_render_pass", 0, 0)
             sp == Log(p, "set_pipeline", 0, 0)
             vb == Log(sp, "set_vertex_buffer", 0, Len(s.vertex_buffer))
             d  == draw(vb, 0, s.num_vertices, 0, 1)
             q  == Log([d EXCEPT !.queue = Append(@, id)], "submit", id, 0)
             o  == Log([q EXCEPT !.surface.presented = Append(@, q.surface.texture),
                                 !.surface.texture = 0],
                       "present", q.surface.texture, 0)
         IN  [result |-> "Ok", s |-> o]

\* ------------------------------------------------------------- events
Keys == {"Escape", "A"}
ElementStates == {"Pressed", "Released"}

Event(kind, wid, w, h, key, st, outcome) ==
    [kind |-> kind, window_id |-> wid, width |-> w, height |-> h,
     key |-> key, element_state |-> st, outcome |-> outcome]

NoEvent == Event("None", "None", 0, 0, "None", "None", "None")

\* (variant: the Escape arm without the Pressed test)
window_event_any_escape(s, control_flow, event) ==
    IF ~input(s, event)
    THEN CASE event.kind = "CloseRequested"
                -> [s |-> s, control_flow |-> "Exit"]
           [] event.kind = "KeyboardInput" /\ event.key = "Escape"
                -> [s |-> s, control_flow |-> "Exit"]
           [] event.kind = "Resized"
                -> [s |-> resize(s, [width |-> event.width, height |-> event.height]),
                    control_flow |-> control_flow]
           [] event.kind = "ScaleFactorChanged"
                -> [s |-> resize(s, [width |-> event.width, height |-> event.height]),
                    control_flow |-> control_flow]
           [] OTHER
                -> [s |-> s, control_flow |-> control_flow]
    ELSE [s |-> s, control_flow |-> control_flow]

\* (variant: no CloseRequested pattern)
window_event_no_close(s, control_flow, event) ==
    IF ~input(s, event)
    THEN CASE event.kind = "KeyboardInput" /\ event.element_state = "Pressed"
                /\ event.key = "Escape"
                -> [s |-> s, control_flow |-> "Exit"]
           [] event.kind = "Resized"
                -> [s |-> resize(s, [width |-> event.width, height |-> event.height]),
                    control_flow |-> control_flow]
           [] event.kind = "ScaleFactorChanged"
                -> [s |-> resize(s, [width |-> event.width, height |-> event.height]),
                    control_flow |-> control_flow]
           [] OTHER
                -> [s |-> s, control_flow |-> control_flow]
    ELSE [s |-> s, control_flow |-> control_flow]

\* (variant: the CursorMoved arm reconfigures the surface)
window_event_cursor_resizes(s, control_flow, event) ==
    IF ~input(s, event)
    THEN CASE event.kind = "CloseRequested"
                -> [s |-> s, control_flow |-> "Exit"]
           [] event.kind = "KeyboardInput" /\ event.element_state = "Pressed"
                /\ event.key = "Escape"
                -> [s |-> s, control_flow |-> "Exit"]
           [] event.kind = "Resized"
                -> [s |-> resize(s, [width |-> event.width, height |-> event.height]),
                    control_flow |-> control_flow]
           [] event.kind = "ScaleFactorChanged"
                -> [s |-> resize(s, [width |-> event.width, height |-> event.height]),
                    control_flow |-> control_flow]
           [] event.kind = "CursorMoved"
                -> [s |-> resize(s, s.size), control_flow |-> control_flow]
           [] OTHER
                -> [s |-> s, control_flow |-> control_flow]
    ELSE [s |-> s, control_flow |-> control_flow]

\* match event { ... } inside `if !state.input(event)`
window_event(s, control_flow, event) ==
    IF ~input(s, event)
    THEN CASE event.kind = "CloseRequested"
                -> [s |-> s, control_flow |-> "Exit"]
           [] event.kind = "KeyboardInput" /\ event.element_state = "Pressed"
                /\ event.key = "Escape"
                -> [s |-> s, control_flow |-> "Exit"]
           [] event.kind = "Resized"
                -> [s |-> resize(s, [width |-> event.width, height |-> event.height]),
                    control_flow |-> control_flow]
           [] event.kind = "ScaleFactorChanged"
                -> [s |-> resize(s, [width |-> event.width, height |-> event.height]),
                    control_flow |-> control_flow]
           [] event.kind = "CursorMoved"
                -> [s |-> s, control_flow |-> control_flow]
           [] OTHER
                -> [s |-> s, control_flow |-> control_flow]
    ELSE [s |-> s, control_flow |-> control_flow]

\* (variant: no Lost arm)
render_result_no_lost(s, control_flow, result) ==
    CASE result = "Ok"          -> [s |-> s, control_flow |-> control_flow]
      [] result = "OutOfMemory" -> [s |-> s, control_flow |-> "Exit"]
      [] OTHER                  -> [s |-> s, control_flow |-> control_flow]

\* (variant: no OutOfMemory arm)
render_result_no_oom(s, control_flow, result) ==
    CASE result = "Ok"          -> [s |-> s, control_flow |-> control_flow]
      [] result = "Lost"        -> [s |-> resize(s, s.size), control_flow |-> control_flow]
      [] OTHER                  -> [s |-> s, control_flow |-> control_flow]

\* (variant: every error reconfigures)
render_result_all_lost(s, control_flow, result) ==
    CASE result = "Ok"          -> [s |-> s, control_flow |-> control_flow]
      [] result = "OutOfMemory" -> [s |-> s, control_flow |-> "Exit"]
      [] OTHER                  -> [s |-> resize(s, s.size), control_flow |-> control_flow]

\* (variant: Lost handled as fatal)
render_result_lost_exits(s, control_flow, result) ==
    CASE result = "Ok"          -> [s |-> s, control_flow |-> control_flow]
      [] result = "Lost"        -> [s |-> resize(s, s.size), control_flow |-> "Exit"]
      [] result = "OutOfMemory" -> [s |-> s, control_flow |-> "Exit"]
      [] OTHER                  -> [s |-> s, control_flow |-> control_flow]

\* match state.render() { ... }
render_result(s, control_flow, result) ==
    CASE result = "Ok"          -> [s |-> s, control_flow |-> control_flow]
      [] result = "Lost"        -> [s |-> resize(s, s.size), control_flow |-> control_flow]
      [] result = "OutOfMemory" -> [s |-> s, control_flow |-> "Exit"]
      [] OTHER                  -> [s |-> s, control_flow |-> control_flow]

\* Event::RedrawRequested arm
redraw_requested(s, control_flow, outcome) ==
    LET u == update(s)
        r == render(u, outcome)
    IN  render_result(r.s, control_flow, r.result)

WindowEventKinds ==
    {"CloseRequested", "KeyboardInput", "Resized", "ScaleFactorChanged",
     "CursorMoved", "Focused"}

\* (variant: no MainEventsCleared arm)
closure_no_request_redraw(s, control_flow, event) ==
    CASE event.kind \in WindowEventKinds /\ event.window_id = window_id
            -> LET r == window_event(s, control_flow, event)
               IN  [s |-> r.s, control_flow |-> r.control_flow, request_redraw |-> FALSE]
      [] event.kind = "RedrawRequested" /\ event.window_id = window_id
            -> LET r == redraw_requested(s, control_flow, event.outcome)
               IN  [s |-> r.s, control_flow |-> r.control_flow, request_redraw |-> FALSE]
      [] OTHER
            -> [s |-> s, control_flow |-> control_flow, request_redraw |-> FALSE]

\* The closure passed to event_loop.run; request_redraw tells whether
\* window.request_redraw() was called.
closure(s, control_flow, event) ==
    CASE event.kind \in WindowEventKinds /\ event.window_id = window_id
            -> LET r == window_event(s, control_flow, event)
               IN  [s |-> r.s, control_flow |-> r.control_flow, request_redraw |-> FALSE]
      [] event.kind = "RedrawRequested" /\ event.window_id = window_id
            -> LET r == redraw_requested(s, control_flow, event.outcome)
               IN  [s |-> r.s, control_flow |-> r.control_flow, request_redraw |-> FALSE]
      [] event.kind = "MainEventsCleared"
            -> [s |-> s, control_flow |-> control_flow, request_redraw |-> TRUE]
      [] OTHER
            -> [s |-> s, control_flow |-> control_flow, request_redraw |-> FALSE]

\* ------------------------------------------------------------------ state
VARIABLES
    phase,          \* "start", "running", "panicked", "destroyed"
    stage,          \* position in one event-loop iteration: "events", "redraw"
    redraw_pending, \* a redraw of the window has been requested
    control_flow,   \* "Poll" or "Exit"
    state,          \* the State object
    ev,             \* the event dispatched last
    last_valid,     \* history: size of the last resize event with both dimensions > 0
    lost,           \* history: reconfigurations since the last Lost acquisition
    oom,            \* history: an acquisition has returned OutOfMemory
    startup         \* history: what request_adapter and request_device returned

vars == <<phase, stage, redraw_pending, control_flow, state, ev, last_valid, lost, oom,
          startup>>

NoLost == [seen |-> FALSE, pending |-> FALSE, reconfigs |-> 0, resizes |-> 0]

IsResize(e) ==
    e.kind \in {"Resized", "ScaleFactorChanged"} /\ e.window_id = window_id

IsValidResize(e) == IsResize(e) /\ e.width > 0 /\ e.height > 0

IsTick(e) == e.kind = "RedrawRequested" /\ e.window_id = window_id

Init ==
    /\ phase = "start"
    /\ stage = "events"
    /\ redraw_pending = FALSE
    /\ control_flow = "Poll"
    /\ state = NoState
    /\ ev = NoEvent
    /\ last_valid = [width |-> 0, height |-> 0]
    /\ lost = NoLost
    /\ oom = FALSE
    /\ startup = [adapter_found |-> TRUE, device_ok |-> TRUE]

\* run(): State::new(&window).await, then event_loop.run
Start(inner_size, adapter_found, device_ok, formats) ==
    /\ phase = "start"
    /\ LET r == new(inner_size, adapter_found, device_ok, formats)
       IN  /\ state' = r.s
           /\ phase' = IF r.result = "Ok" THEN "running" ELSE "panicked"
    /\ last_valid' = inner_size
    /\ startup' = [adapter_found |-> adapter_found, device_ok |-> device_ok]
    /\ UNCHANGED <<stage, redraw_pending, control_flow, ev, lost, oom>>

\* One call of the closure with event e.
Dispatch(e) ==
    /\ phase = "running"
    /\ LET r == closure([state EXCEPT !.trace = <<>>], control_flow, e)
           n == Calls(r.s.trace, "configure")
       IN  /\ state' = r.s
           /\ control_flow' = r.control_flow
           /\ redraw_pending' = IF IsTick(e) THEN FALSE
                                ELSE (redraw_pending \/ r.request_redraw)
           /\ lost' = IF IsTick(e) /\ e.outcome = "Lost"
                        THEN [seen |-> TRUE, pending |-> TRUE,
                              reconfigs |-> n, resizes |-> 0]
                      ELSE IF IsTick(e) /\ e.outcome = "Ok"
                        THEN [lost EXCEPT !.pending = FALSE]
                      ELSE IF lost.pending
                        THEN [lost EXCEPT !.reconfigs = @ + n,
                                          !.resizes = @ + (IF IsValidResize(e) THEN 1 ELSE 0)]
                      ELSE lost
    /\ ev' = e
    /\ oom' = (oom \/ (IsTick(e) /\ e.outcome = "OutOfMemory"))
    /\ last_valid' = IF IsValidResize(e)
                     THEN [width |-> e.width, height |-> e.height]
                     ELSE last_valid
    /\ UNCHANGED <<phase, startup>>

ResizeBudget(e) == (lost.pending /\ IsValidResize(e)) => lost.resizes < MaxResizes

CloseRequested(wid) ==
    /\ stage = "events"
    /\ Dispatch(Event("CloseRequested", wid, 0, 0, "None", "None", "None"))
    /\ UNCHANGED stage

KeyboardInput(wid, key, st) ==
    /\ stage = "events"
    /\ Dispatch(Event("KeyboardInput", wid, 0, 0, key, st, "None"))
    /\ UNCHANGED stage

Resized(wid, w, h) ==
    /\ stage = "events"
    /\ ResizeBudget(Event("Resized", wid, w, h, "None", "None", "None"))
    /\ Dispatch(Event("Resized", wid, w, h, "None", "None", "None"))
    /\ UNCHANGED stage

ScaleFactorChanged(wid, w, h) ==
    /\ stage = "events"
    /\ ResizeBudget(Event("ScaleFactorChanged", wid, w, h, "None", "None", "None"))
    /\ Dispatch(Event("ScaleFactorChanged", wid, w, h, "None", "None", "None"))
    /\ UNCHANGED stage

CursorMoved(wid) ==
    /\ stage = "events"
    /\ Dispatch(Event("CursorMoved", wid, 0, 0, "None", "None", "None"))
    /\ UNCHANGED stage

\* any window event the closure has no arm for
OtherWindowEvent(wid) ==
    /\ stage = "events"
    /\ Dispatch(Event("Focused", wid, 0, 0, "None", "None", "None"))
    /\ UNCHANGED stage

\* any non-window event the closure has no arm for
OtherEvent ==
    /\ stage = "events"
    /\ Dispatch(Event("DeviceEvent", "None", 0, 0, "None", "None", "None"))
    /\ UNCHANGED stage

MainEventsCleared ==
    /\ stage = "events"
    /\ Dispatch(Event("MainEventsCleared", "None", 0, 0, "None", "None", "None"))
    /\ stage' = "redraw"

RedrawRequested(wid, outcome) ==
    /\ stage = "redraw"
    /\ wid = window_id => redraw_pending
    /\ (wid = window_id /\ outcome = "Ok") => state.surface.frames < MaxFrames
    /\ Dispatch(Event("RedrawRequested", wid, 0, 0, "None", "None", outcome))
    /\ UNCHANGED stage

\* End of the iteration: the loop stops here when the closure asked for Exit.
RedrawEventsCleared ==
    /\ phase = "running"
    /\ stage = "redraw"
    /\ ~redraw_pending
    /\ ev' = Event("RedrawEventsCleared", "None", 0, 0, "None", "None", "None")
    /\ state' = [state EXCEPT !.trace = <<>>]
    /\ stage' = "events"
    /\ phase' = IF control_flow = "Exit" THEN "destroyed" ELSE "running"
    /\ UNCHANGED <<redraw_pending, control_flow, last_valid, lost, oom, startup>>

\* The loop may also stop as soon as Exit has been asked for.
LoopDestroyed ==
    /\ phase = "running"
    /\ control_flow = "Exit"
    /\ phase' = "destroyed"
    /\ UNCHANGED <<stage, redraw_pending, control_flow, state, ev, last_valid, lost, oom,
                   startup>>

\* Sizes delivered to the window, and one size delivered to another window.
ResizeInputs ==
    [window_id : {window_id}, width : Dims, height : Dims]
        \cup {[window_id |-> "other", width |-> MaxDim, height |-> MaxDim]}

\* Keys delivered to the window, and an Escape press delivered to another one.
KeyInputs ==
    [window_id : {window_id}, key : Keys, element_state : ElementStates]
        \cup {[window_id |-> "other", key |-> "Escape", element_state |-> "Pressed"]}

\* Redraws of the window with what the acquisition returns, and the redraw
\* of another window, for which nothing is acquired.
RedrawInputs ==
    [window_id : {window_id}, outcome : Outcomes]
        \cup {[window_id |-> "other", outcome |-> "None"]}

Next ==
    \/ \E sz \in Sizes, a \in BOOLEAN, d \in BOOLEAN, f \in FormatLists : Start(sz, a, d, f)
    \/ \E wid \in WindowIds : CloseRequested(wid)
    \/ \E k \in KeyInputs : KeyboardInput(k.window_id, k.key, k.element_state)
    \/ \E r \in ResizeInputs : Resized(r.window_id, r.width, r.height)
    \/ \E r \in ResizeInputs : ScaleFactorChanged(r.window_id, r.width, r.height)
    \/ \E wid \in WindowIds : CursorMoved(wid)
    \/ \E wid \in WindowIds : OtherWindowEvent(wid)
    \/ OtherEvent
    \/ MainEventsCleared
    \/ \E r \in RedrawInputs : RedrawRequested(r.window_id, r.outcome)
    \/ RedrawEventsCleared
    \/ LoopDestroyed

Spec == Init /\ [][Next]_vars

\* The redraw tick of the window, whatever the acquisition returns.
Tick == \E o \in Outcomes : RedrawRequested(window_id, o)

\* The event loop always goes on with its iteration: after the pending
\* events it emits MainEventsCleared, then the requested redraw, then
\* RedrawEventsCleared.
FairSpec ==
    /\ Spec
    /\ WF_vars(MainEventsCleared)
    /\ WF_vars(Tick)
    /\ WF_vars(RedrawEventsCleared)

TypeOK ==
    /\ phase \in {"start", "running", "panicked", "destroyed"}
    /\ stage \in {"events", "redraw"}
    /\ control_flow \in {"Poll", "Exit"}
    /\ redraw_pending \in BOOLEAN

\* ============================================================== claims
Started == phase \in {"running", "destroyed"}

\* this step is a call of the closure with the event ev'
Dispatched == phase = "running" /\ phase' = "running" /\ stage' = stage

\* this step is a redraw tick of the window
Ticked == IsTick(ev') /\ ~IsTick(ev)

SameCore ==
    /\ state'.size = state.size
    /\ state'.config = state.config
    /\ state'.surface = state.surface
    /\ state'.queue = state.queue
    /\ state'.render_pipeline = state.render_pipeline
    /\ state'.vertex_buffer = state.vertex_buffer
    /\ state'.num_vertices = state.num_vertices

Ops(trace) == [i \in DOMAIN trace |-> trace[i].op]

\* C1: after every event the stored configuration's (width, height) is that
\* of the most recent resize / scale-factor-change event with width > 0 and
\* height > 0, or the initial window size if there was none.
C1_ConfigIsLastValidResize ==
    Started => /\ state.config.width = last_valid.width
               /\ state.config.height = last_valid.height

C1_Witness ==
    /\ phase = "running"
    /\ IsResize(ev) /\ ~IsValidResize(ev)
    /\ lost.resizes > 0
    /\ state.config.width = 2 /\ state.config.height = 1

\* C2: no call of surface.configure, the one at startup included, receives
\* a configuration with width = 0 or height = 0.
C2_NoZeroSizedConfigure ==
    \A i \in DOMAIN state.trace :
        state.trace[i].op = "configure" => state.trace[i].a > 0 /\ state.trace[i].b > 0

\* C3: a resize with width = 0 or height = 0 changes nothing and issues no
\* surface.configure call.
C3_ZeroResizeIsNoOp ==
    [][(Dispatched /\ IsResize(ev') /\ ~IsValidResize(ev'))
        => /\ SameCore
           /\ control_flow' = control_flow
           /\ state'.trace = <<>>]_vars

C3_Witness ==
    /\ phase = "running"
    /\ IsResize(ev) /\ ev.width > 0 /\ ev.height = 0
    /\ state.size.width # ev.width

\* C4 as stated: exactly one surface.configure call between a Lost
\* acquisition and the next successful one.
C4_ExactlyOneReconfigure ==
    lost.seen => lost.reconfigs = 1

\* C4 as amended: between the most recent Lost acquisition and the next
\* successful one, the recovery issues one surface.configure call and every
\* resize event with both dimensions > 0 in between issues one more.
C4_OneReconfigurePlusResizes ==
    lost.seen => lost.reconfigs = 1 + lost.resizes

C4_Witness ==
    /\ lost.seen /\ ~lost.pending
    /\ lost.resizes = 1
    /\ IsTick(ev) /\ ev.outcome = "Ok"

\* C5: an OutOfMemory acquisition sets the exit flag, and from then on no
\* tick runs: nothing is acquired, recorded, submitted or presented, and
\* the loop does not start another iteration.
C5_OutOfMemoryEndsLoop ==
    [][/\ (Ticked /\ ev'.outcome = "OutOfMemory") => control_flow' = "Exit"
       /\ oom => /\ control_flow = "Exit" /\ control_flow' = "Exit"
                 /\ ~Ticked
                 /\ SameCore
                 /\ phase' = "running" => stage' = "redraw"]_vars

C5_Witness ==
    /\ phase = "destroyed"
    /\ oom
    /\ ev.kind = "RedrawEventsCleared"
    /\ Len(state.queue) > 0

\* C6: an Outdated or Timeout acquisition skips the frame: one update, one
\* acquisition attempt, nothing else; size, configuration, surface, queue
\* and exit flag are unchanged and the loop goes on.
C6_TransientErrorSkipsFrame ==
    [][(Ticked /\ ev'.outcome \in {"Outdated", "Timeout"})
        => /\ Ops(state'.trace) = <<"update", "get_current_texture">>
           /\ SameCore
           /\ control_flow' = control_flow
           /\ phase' = "running"]_vars

C6_Witness ==
    /\ phase = "running" /\ control_flow = "Poll"
    /\ IsTick(ev) /\ ev.outcome = "Timeout"
    /\ Len(state.queue) > 0

\* C7: the exit flag is set only by a close request, an Escape key press or
\* an OutOfMemory acquisition error.
C7_OnlyFatalSetsExit ==
    [][(control_flow = "Poll" /\ control_flow' = "Exit")
        => /\ ev'.window_id = window_id
           /\ \/ ev'.kind = "CloseRequested"
              \/ /\ ev'.kind = "KeyboardInput"
                 /\ ev'.key = "Escape" /\ ev'.element_state = "Pressed"
              \/ /\ ev'.kind = "RedrawRequested"
                 /\ ev'.outcome = "OutOfMemory"]_vars

C7_Witness ==
    /\ control_flow = "Exit"
    /\ ev.kind = "KeyboardInput" /\ ev.window_id = window_id
    /\ lost.seen

\* C8: a tick runs update, acquire, record (clear pass, pipeline, vertex
\* buffer, one draw), submit, present in this order, each once; a failed
\* acquisition is followed by no record, submit or present; the queue holds
\* the frames in the order they were acquired and only submitted frames are
\* presented.
FrameOps ==
    <<"update", "get_current_texture", "create_command_encoder",
      "begin_render_pass", "set_pipeline", "set_vertex_buffer", "draw",
      "submit", "present">>

RecordOps ==
    {"create_command_encoder", "begin_render_pass", "set_pipeline",
     "set_vertex_buffer", "draw", "submit", "present"}

C8_FrameStepsInOrder ==
    /\ IsTick(ev) =>
         IF ev.outcome = "Ok"
         THEN /\ Ops(state.trace) = FrameOps
              /\ state.trace[2].a = state.surface.frames
              /\ state.trace[8].a = state.trace[2].a
              /\ state.trace[9].a = state.trace[2].a
         ELSE /\ Len(state.trace) >= 2
              /\ state.trace[1].op = "update"
              /\ state.trace[2].op = "get_current_texture"
              /\ \A i \in DOMAIN state.trace : state.trace[i].op \notin RecordOps
              /\ Calls(state.trace, "update") = 1
              /\ Calls(state.trace, "get_current_texture") = 1
    /\ state.queue = [i \in 1..state.surface.frames |-> i]
    /\ \A i \in DOMAIN state.surface.presented :
          /\ i \in DOMAIN state.queue
          /\ state.surface.presented[i] = state.queue[i]

C8_Witness ==
    /\ IsTick(ev) /\ ev.outcome = "Ok"
    /\ state.queue = <<1, 2>>
    /\ state.surface.presented = <<1, 2>>

\* C9: every draw call covers 3 vertices and 1 instance, and the vertex
\* count set at startup stays 3.
C9_DrawThreeVerticesOneInstance ==
    /\ \A i \in DOMAIN state.trace :
          state.trace[i].op = "draw" => state.trace[i].a = 3 /\ state.trace[i].b = 1
    /\ Started => state.num_vertices = 3

C9_Witness ==
    /\ \E i \in DOMAIN state.trace : state.trace[i].op = "draw"
    /\ lost.seen /\ lost.resizes > 0
    /\ state.surface.frames = 2

\* C10: the pipeline's color target format is the surface's configured
\* format, at startup and in every later state.
C10_PipelineFormatIsSurfaceFormat ==
    Started => /\ state.render_pipeline.built
               /\ state.render_pipeline.format = state.config.format
               /\ state.render_pipeline.format = state.surface.format

C10_Witness ==
    /\ phase = "running"
    /\ state.render_pipeline.format = "Rgba8UnormSrgb"
    /\ lost.seen /\ lost.resizes > 0
    /\ IsValidResize(ev)

\* C11: the render pipeline is built once, at startup, after the first
\* surface.configure and before any frame; no event builds it again or
\* changes it.
C11_PipelineBuiltOnceAtStartup ==
    [][/\ (phase = "start" /\ phase' = "running")
            => /\ Ops(state'.trace)
                    = <<"configure", "create_render_pipeline", "create_buffer_init">>
               /\ state'.render_pipeline.built
               /\ state'.surface.frames = 0 /\ state'.queue = <<>>
       /\ phase = "running"
            => /\ Calls(state'.trace, "create_render_pipeline") = 0
               /\ state'.render_pipeline = state.render_pipeline]_vars

C11_Witness ==
    /\ phase = "running"
    /\ IsValidResize(ev) /\ ev.kind = "ScaleFactorChanged"
    /\ state.render_pipeline.built
    /\ lost.seen
    /\ state.surface.frames > 0

\* C12: the configuration applied to the surface is the stored one, in
\* every state in which a frame can be acquired, also after a resize with a
\* zero dimension.
C12_SurfaceHasStoredConfig ==
    Started => /\ state.surface.configured
               /\ state.surface.width = state.config.width
               /\ state.surface.height = state.config.height
               /\ state.surface.format = state.config.format
               /\ state.surface.present_mode = state.config.present_mode

C12_Witness ==
    /\ IsTick(ev) /\ ev.outcome = "Ok"
    /\ state.surface.width = 1 /\ state.surface.height = 2
    /\ state.config.width = 1 /\ state.config.height = 2
    /\ last_valid.width = 1 /\ last_valid.height = 2
    /\ state.surface.frames = 2

\* C13: when no adapter is found or the device request is rejected, the
\* program stops in State::new: nothing is configured or built, no event is
\* dispatched, no frame is rendered.
C13_StartupFailureAborts ==
    (phase # "start" /\ (~startup.adapter_found \/ ~startup.device_ok))
        => /\ phase = "panicked"
           /\ state = NoState
           /\ ev = NoEvent
           /\ ~redraw_pending
           /\ control_flow = "Poll"

C13_Witness ==
    /\ phase = "panicked"
    /\ startup.adapter_found /\ ~startup.device_ok
    /\ last_valid.width > 0 /\ last_valid.height > 0

IsCloseOrEscape(e) ==
    /\ e.window_id = window_id
    /\ \/ e.kind = "CloseRequested"
       \/ e.kind = "KeyboardInput" /\ e.key = "Escape" /\ e.element_state = "Pressed"

\* C14: a close request or an Escape press for the window sets the exit
\* flag, no later event clears it, and the loop then ends.
C14_CloseOrEscapeTerminates ==
    /\ [][/\ (Dispatched /\ IsCloseOrEscape(ev')) => control_flow' = "Exit"
          /\ control_flow = "Exit" => control_flow' = "Exit"]_vars
    /\ (control_flow = "Exit" ~> phase = "destroyed")

C14_Witness ==
    /\ phase = "destroyed"
    /\ ~oom
    /\ control_flow = "Exit"
    /\ ev.kind = "RedrawEventsCleared"
    /\ state.surface.frames > 0

IsPassThrough(e) ==
    /\ e.kind \in WindowEventKinds
    /\ e.kind \notin {"CloseRequested", "Resized", "ScaleFactorChanged"}
    /\ ~(e.kind = "KeyboardInput" /\ e.key = "Escape" /\ e.element_state = "Pressed")

\* C15: a window event that is not a close request, an Escape press, a
\* resize or a scale-factor change changes nothing: size, configuration,
\* surface, queue, pipeline, vertex buffer, vertex count and exit flag stay,
\* and no GPU call is made.
C15_OtherWindowEventsChangeNothing ==
    [][(Dispatched /\ IsPassThrough(ev'))
        => /\ SameCore
           /\ control_flow' = control_flow
           /\ redraw_pending' = redraw_pending
           /\ state'.trace = <<>>]_vars

C15_Witness ==
    /\ phase = "running" /\ control_flow = "Poll"
    /\ ev.kind = "CursorMoved" /\ ev.window_id = window_id
    /\ state.surface.frames > 0
    /\ lost.pending

\* C16: a tick whose acquisition returns Lost calls surface.configure once,
\* with the stored size; size, configuration and surface keep their
\* values, nothing is recorded, submitted or presented, the exit flag is
\* untouched and no texture is outstanding.
C16_LostReconfiguresWithStoredSize ==
    [][(Ticked /\ ev'.outcome = "Lost")
        => /\ state'.trace
                = <<Step("update", 0, 0), Step("get_current_texture", 0, 0),
                    Step("configure", state.size.width, state.size.height)>>
           /\ SameCore
           /\ state'.surface.width = state.size.width
           /\ state'.surface.height = state.size.height
           /\ state'.surface.texture = 0
           /\ control_flow' = control_flow
           /\ phase' = "running"]_vars

C16_Witness ==
    /\ phase = "running"
    /\ IsTick(ev) /\ ev.outcome = "Lost"
    /\ state.size.width = 2 /\ state.size.height = 2
    /\ state.surface.frames = 1

\* C17: between events no acquired texture is outstanding, every acquired
\* texture has been presented once, in the render call that acquired it,
\* and a render call acquires at most one texture.
C17_NoTextureOutlivesItsTick ==
    /\ state.surface.texture = 0
    /\ state.surface.presented = [i \in 1..state.surface.frames |-> i]
    /\ Calls(state.trace, "get_current_texture") <= 1
    /\ \A i \in DOMAIN state.trace :
          (state.trace[i].op = "get_current_texture" /\ state.trace[i].a > 0)
              => \E j \in DOMAIN state.trace :
                    /\ j > i
                    /\ state.trace[j] = Step("present", state.trace[i].a, 0)
    /\ Calls(state.trace, "present") <= Calls(state.trace, "get_current_texture")

C17_Witness ==
    /\ IsTick(ev) /\ ev.outcome = "Ok"
    /\ state.surface.presented = <<1, 2>>
    /\ state.surface.texture = 0
    /\ lost.seen

IsSkippedTick(e) == IsTick(e) /\ e.outcome \in {"Lost", "Outdated", "Timeout"}

\* C18: MainEventsCleared always requests a redraw; while the loop runs and
\* has not been told to exit, redraw ticks occur again and again; a skipped
\* frame is followed by a MainEventsCleared with a redraw requested, and so
\* by another tick.
C18_RedrawTicksRecur ==
    /\ [][(phase = "running" /\ stage = "events" /\ stage' = "redraw")
            => (ev'.kind = "MainEventsCleared" /\ redraw_pending')]_vars
    /\ []<>(IsTick(ev) \/ control_flow = "Exit" \/ phase # "running")
    /\ ((phase = "running" /\ IsSkippedTick(ev))
            ~> ((stage = "redraw" /\ ev.kind = "MainEventsCleared" /\ redraw_pending)
                \/ control_flow = "Exit"))

C18_Witness ==
    /\ phase = "running" /\ control_flow = "Poll"
    /\ IsTick(ev) /\ ev.outcome = "Outdated"
    /\ lost.seen /\ ~lost.pending
    /\ state.surface.frames = 1

\* C19: the stored size equals the stored configuration's (width, height)
\* in every state.
C19_SizeEqualsConfigSize ==
    /\ state.size.width = state.config.width
    /\ state.size.height = state.config.height

C19_Witness ==
    /\ phase = "running"
    /\ IsValidResize(ev) /\ ev.kind = "Resized"
    /\ state.size = [width |-> ev.width, height |-> ev.height]
    /\ state.size.width = 1 /\ state.size.height = 2
    /\ lost.pending /\ lost.resizes = 1

====
